---- MODULE Spec2Model ----
(***************************************************************************)
(* The parallel grid search of calibrate.go: gridSearchParallel starts     *)
(* numReaders reader goroutines; each reader takes batches of JSON tasks   *)
(* from the shared decoder under readerMutex and runs one worker per       *)
(* batch; the worker slices the permutations of each task over sub-workers *)
(* (runParallelGradientDescent), waits for them and starts a writer.       *)
(*                                                                         *)
(* Floating point is abstracted: a learning rate and an epoch count are    *)
(* small naturals, the parameters a run of gradient descent fits are named *)
(* by the pair <<alpha, numEpochs>> that produced them, and the mean       *)
(* squared error of fitted parameters is read from mseTable, which stands  *)
(* for the dataset and is chosen in Init. data says what kind of dataset   *)
(* was loaded: "ok" (at least two different X), "empty" (no row) or "flat" *)
(* (every X the same, so minX = maxX).                                     *)
(***************************************************************************)
EXTENDS Integers, Sequences, FiniteSets, TLC

\* ---------------------------------------------------------------- bounds
MaxThreads == 6      \* the thread budget of the two-reader configurations
MaxGridThreads == 4  \* largest thread budget tried on a single task
MaxBlock == 2        \* largest -b block size tried
MaxStream == 2       \* longest input stream tried in the pipeline configurations
MaxErr == 2          \* mean squared errors are 1..MaxErr
MaxAlpha == 3        \* longest learning-rate list, and the largest learning rate
MaxNegThreads == 5   \* thread budgets below zero go down to -MaxNegThreads

\* math.MaxFloat64, above every error of the model
MaxFloat64 == 1000

\* The float64 NaN: what Normalize's division by maxX - minX = 0 makes of every
\* X, and so of every fitted parameter and error. No error of mseTable is NaN.
NaN == -1

\* a < b on float64: false when either side is NaN.
Less(a, b) == a # NaN /\ b # NaN /\ a < b

\* ------------------------------------------------------------ data types
\* A Go slice: nil, or a sequence of elements (len(nil) = 0).
NilSlice == [nil |-> TRUE, e |-> <<>>]
Slice(s) == [nil |-> FALSE, e |-> s]

\* type Hyperparameters
Hyperparameters(outpath, alpha, numEpochs, lambda, miniBatchSize) ==
    [Outpath |-> outpath, Alpha |-> alpha, NumEpochs |-> numEpochs,
     Lambda |-> lambda, MiniBatchSize |-> miniBatchSize]

\* type regression.Parameters: fitted parameters are named by the pair
\* <<alpha, numEpochs>> of the run that fitted them; Parameters{0, 0} is <<0, 0>>.
ZeroParameters == <<0, 0>>

\* type jsonInput, as one record of Stdin. kind is what dec.Decode makes of the
\* record: "ok" (decoded, err = nil), "type" (a value of the wrong JSON type:
\* Decode consumes the record, fills the fields that fit and returns an
\* UnmarshalTypeError) or "syntax" (invalid JSON: Decode returns a SyntaxError,
\* leaves j untouched and keeps returning that error on every later call).
JsonRecord(kind, outpath, alpha, numEpochs, lambda, miniBatchSize) ==
    [kind |-> kind, outpath |-> outpath, alpha |-> alpha, numEpochs |-> numEpochs,
     lambda |-> lambda, miniBatchSize |-> miniBatchSize]

\* The zero value of jsonInput.
ZeroJson == JsonRecord("zero", "", <<>>, <<>>, <<>>, <<>>)

\* strconv.ParseFloat with its error dropped: 0 for a string that is no number.
ParseFloat(s) ==
    CASE s = "1" -> 1
      [] s = "2" -> 2
      [] s = "3" -> 3
      [] s = "4" -> 4
      [] s = "5" -> 5
      [] OTHER -> 0

\* stringToFloat64: a non-nil slice of the converted strings.
stringToFloat64(input) == Slice([i \in 1..Len(input) |-> ParseFloat(input[i])])

\* Lines 318-322: the Hyperparameters built from a decoded jsonInput.
ToHyperparameters(j) ==
    Hyperparameters(j.outpath, stringToFloat64(j.alpha), stringToFloat64(j.numEpochs),
                    stringToFloat64(j.lambda), stringToFloat64(j.miniBatchSize))

Max(a, b) == IF a >= b THEN a ELSE b

\* math.Ceil(n / d) for naturals n and d > 0.
Ceil(n, d) == (n + d - 1) \div d

\* Sequence helpers.
RECURSIVE Flatten(_)
Flatten(ss) == IF ss = <<>> THEN <<>> ELSE Head(ss) \o Flatten(Tail(ss))

Range(s) == {s[i] : i \in DOMAIN s}

\* workArray[lo:hi] of Go (0-based, hi exclusive).
GoSlice(s, lo, hi) == SubSeq(s, lo + 1, hi)

\* ------------------------------------------------------------ pure parts
\* numReaders of gridSearchParallel: ceil(numThreads * (1/5)).
NumReaders(t) == Ceil(t, 5)

\* createArrayParamPermutations: the cross product of Alpha and NumEpochs, alpha-major.
createArrayParamPermutations(h) ==
    Flatten([a \in 1..Len(h.Alpha.e) |->
                [n \in 1..Len(h.NumEpochs.e) |->
                    Hyperparameters(h.Outpath, Slice(<<h.Alpha.e[a]>>),
                                    Slice(<<h.NumEpochs.e[n]>>), NilSlice, NilSlice)]])

\* numTotalParamSets of worker: every axis counts, an empty one as 1.
NumTotalParamSets(h) ==
    Max(1, Len(h.Alpha.e)) * Max(1, Len(h.NumEpochs.e)) *
    Max(1, Len(h.Lambda.e)) * Max(1, Len(h.MiniBatchSize.e))

\* workSizePerThread of worker.
WorkSizePerThread(h, t) == Ceil(NumTotalParamSets(h), t)

\* The loop of worker that starts the sub-workers: sub-worker i gets
\* workArray[i*w : (i+1)*w], and the loop breaks at the first i whose end index
\* is beyond the work array.
RECURSIVE ChunksFrom(_, _, _, _)
ChunksFrom(workArray, w, i, t) ==
    IF i >= t \/ (i + 1) * w > Len(workArray)
    THEN <<>>
    ELSE <<GoSlice(workArray, i * w, (i + 1) * w)>> \o ChunksFrom(workArray, w, i + 1, t)

SubWork(h, t) == ChunksFrom(createArrayParamPermutations(h), WorkSizePerThread(h, t), 0, t)

\* runGradientDescent: int(numEpochs) updates from Parameters{0, 0}; no epoch, or
\* a learning rate of 0, leaves the parameters at {0, 0}.
runGradientDescent(alpha, numEpochs) ==
    IF alpha = 0 \/ numEpochs = 0 THEN ZeroParameters ELSE <<alpha, numEpochs>>

\* ----------------------------------------------------------------- state
VARIABLES
    numThreads,    \* -t, the thread budget
    blockSize,     \* -b, the tasks a reader takes per call
    stream,        \* Stdin: the sequence of JSON records
    mseTable,      \* the dataset, as the error of each fitted parameter pair
    data,          \* the kind of dataset LoadTrainingData returned
    dec,           \* the shared json.Decoder: records consumed, sticky error
    readerMutex,   \* 0, or the reader that holds the lock
    status,        \* "running", "returned" (gridSearchParallel returned), "fatal" (log.Fatal),
                   \* "panic" (a goroutine panicked and the process ended)
    received,      \* values main has received from readerDone
    readers,       \* per reader: pc, loop counter i and the channel being filled
    workers,       \* per reader: its worker goroutine
    subs,          \* per reader: the sub-workers of the worker's current task
    writers,       \* every writer goroutine started so far
    delivered      \* history: the batches readJSONInputTasksParallel returned

vars == <<numThreads, blockSize, stream, mseTable, data, dec, readerMutex, status, received,
          readers, workers, subs, writers, delivered>>

inputs == <<numThreads, blockSize, stream, mseTable, data>>

Readers == 1..NumReaders(numThreads)

\* regression.MinMax reads arr[0]: an index out of range on an empty slice.
MinMaxPanics == data = "empty"

\* regression.CalcMSE of the forecast of the (un-normalised) fitted parameters;
\* on a flat dataset Normalize and UnNormalize divide by zero and the error is NaN.
CalcMSE(parameters) == IF data = "flat" THEN NaN ELSE mseTable[parameters]

\* The parameter pairs the tasks of a stream can fit.
Tokens(s) ==
    UNION {{runGradientDescent(ParseFloat(s[k].alpha[a]), ParseFloat(s[k].numEpochs[n])) :
               a \in 1..Len(s[k].alpha), n \in 1..Len(s[k].numEpochs)} : k \in 1..Len(s)}

\* dec.Decode(&j) on decoder state d: the error, the decoded jsonInput, the
\* decoder afterwards and the stream index of the record consumed (0: none).
Decode(d) ==
    IF d.err # "nil"
    THEN [err |-> d.err, j |-> ZeroJson, dec |-> d, src |-> 0]
    ELSE IF d.pos = Len(stream)
    THEN [err |-> "EOF", j |-> ZeroJson, dec |-> [d EXCEPT !.err = "EOF"], src |-> 0]
    ELSE LET rec == stream[d.pos + 1] IN
         CASE rec.kind = "ok" ->
                [err |-> "nil", j |-> rec, dec |-> [d EXCEPT !.pos = @ + 1], src |-> d.pos + 1]
           [] rec.kind = "type" ->
                [err |-> "type", j |-> rec, dec |-> [d EXCEPT !.pos = @ + 1], src |-> d.pos + 1]
           [] OTHER ->
                [err |-> "syntax", j |-> ZeroJson, dec |-> [d EXCEPT !.err = "syntax"], src |-> 0]

IdleReader == [pc |-> "call", i |-> 0, chan |-> <<>>]

IdleWorker ==
    [pc |-> "idle", numTasks |-> 0, taskCounter |-> 0, chan |-> <<>>, src |-> 0,
     hyperParams |-> Hyperparameters("", NilSlice, NilSlice, NilSlice, NilSlice),
     globalOptimalHyperParams |-> Hyperparameters("", NilSlice, NilSlice, NilSlice, NilSlice),
     globalOptimalMSE |-> MaxFloat64,
     globalOptimalModelParams |-> ZeroParameters,
     globalParamLock |-> 0, writer |-> 0]

\* A sub-worker at its start (lines 253-255).
NewSub(outpath, workArray) ==
    [pc |-> "run", workArray |-> workArray,
     localOptimalHyperParams |-> Hyperparameters(outpath, NilSlice, NilSlice, NilSlice, NilSlice),
     localOptimalMSE |-> MaxFloat64,
     localOptimalModelParams |-> ZeroParameters]

\* The loop of runParallelGradientDescent over its work array (lines 257-268).
RECURSIVE LocalBest(_, _)
LocalBest(workArray, best) ==
    IF workArray = <<>> THEN best
    ELSE LET hyperParams == Head(workArray)
             parameters == runGradientDescent(hyperParams.Alpha.e[1], hyperParams.NumEpochs.e[1])
             mse == CalcMSE(parameters)
         IN  LocalBest(Tail(workArray),
                       IF Less(mse, best.localOptimalMSE)
                       THEN [best EXCEPT
                               !.localOptimalMSE = mse,
                               !.localOptimalHyperParams =
                                   Hyperparameters(best.localOptimalHyperParams.Outpath,
                                                   Slice(<<hyperParams.Alpha.e[1]>>),
                                                   Slice(<<hyperParams.NumEpochs.e[1]>>),
                                                   NilSlice, NilSlice),
                               !.localOptimalModelParams = parameters]
                       ELSE best)

\* ------------------------------------------------------------ reader side
Running == status = "running"

\* Mutant of ReaderLock: the reader enters without waiting for the lock.
ReaderLockNoWait(r) ==
    /\ Running
    /\ readers[r].pc = "call"
    /\ readerMutex' = r
    /\ readers' = [readers EXCEPT ![r] = [pc |-> "decode", i |-> 0, chan |-> <<>>]]
    /\ UNCHANGED <<inputs, dec, status, received, workers, subs, writers, delivered>>

\* readJSONInputTasksParallel, line 307: lock.Lock(), then the channel is made.
ReaderLock(r) ==
    /\ Running
    /\ readers[r].pc = "call"
    /\ readerMutex = 0
    /\ readerMutex' = r
    /\ readers' = [readers EXCEPT ![r] = [pc |-> "decode", i |-> 0, chan |-> <<>>]]
    /\ UNCHANGED <<inputs, dec, status, received, workers, subs, writers, delivered>>

\* One iteration of the loop of lines 309-324: Decode; io.EOF breaks the loop,
\* and after any other outcome, an error included, h is built from j and sent.
ReaderDecode(r) ==
    /\ Running
    /\ readers[r].pc = "decode"
    /\ LET res == Decode(dec) IN
       /\ dec' = res.dec
       /\ readers' = [readers EXCEPT ![r] =
             IF res.err = "EOF"
             THEN [@ EXCEPT !.pc = "unlock"]
             ELSE [pc |-> IF @.i + 1 < blockSize THEN "decode" ELSE "unlock",
                   i |-> @.i + 1,
                   chan |-> Append(@.chan, [h |-> ToHyperparameters(res.j), src |-> res.src])]]
    /\ UNCHANGED <<inputs, readerMutex, status, received, workers, subs, writers, delivered>>

\* Mutant of ReaderUnlock: the channel is returned with the lock still held.
ReaderReturnLocked(r) ==
    /\ Running
    /\ readers[r].pc = "unlock"
    /\ readers' = [readers EXCEPT ![r].pc = "got"]
    /\ delivered' = Append(delivered,
                           [reader |-> r,
                            src |-> [k \in 1..Len(readers[r].chan) |-> readers[r].chan[k].src]])
    /\ UNCHANGED <<inputs, dec, readerMutex, status, received, workers, subs, writers>>

\* Lines 325-326: lock.Unlock() and the channel is returned to the reader.
ReaderUnlock(r) ==
    /\ Running
    /\ readers[r].pc = "unlock"
    /\ readerMutex' = 0
    /\ readers' = [readers EXCEPT ![r].pc = "got"]
    /\ delivered' = Append(delivered,
                           [reader |-> r,
                            src |-> [k \in 1..Len(readers[r].chan) |-> readers[r].chan[k].src]])
    /\ UNCHANGED <<inputs, dec, status, received, workers, subs, writers>>

\* Mutant of NumTasks: the last task of the batch is not counted.
NumTasksOffByOne(chan) == IF Len(chan) = 0 THEN 0 ELSE Len(chan) - 1

\* reader, line 114: numTasks := len(hyperparamsTaskChannel).
NumTasks(chan) == Len(chan)

\* reader, lines 114-123: an empty batch ends the reader; otherwise one worker
\* goroutine is started on the batch and the reader waits for workerDone.
ReaderDispatch(r) ==
    /\ Running
    /\ readers[r].pc = "got"
    /\ LET numTasks == NumTasks(readers[r].chan) IN
       IF numTasks = 0
       THEN /\ readers' = [readers EXCEPT ![r].pc = "report"]
            /\ UNCHANGED workers
       ELSE /\ readers' = [readers EXCEPT ![r].pc = "wait"]
            /\ workers' = [workers EXCEPT ![r] =
                  [IdleWorker EXCEPT !.pc = "take", !.numTasks = numTasks,
                                     !.chan = readers[r].chan]]
    /\ UNCHANGED <<inputs, dec, readerMutex, status, received, subs, writers, delivered>>

\* reader line 116 with main's receive of lines 105-107 (readerDone is unbuffered).
ReaderReport(r) ==
    /\ Running
    /\ readers[r].pc = "report"
    /\ received < NumReaders(numThreads)
    /\ received' = received + 1
    /\ readers' = [readers EXCEPT ![r].pc = "exit"]
    /\ UNCHANGED <<inputs, dec, readerMutex, status, workers, subs, writers, delivered>>

\* Mutant of ReaderWake: the reader goes on without receiving workerDone.
ReaderWakeEarly(r) ==
    /\ Running
    /\ readers[r].pc = "wait"
    /\ readers' = [readers EXCEPT ![r] = IdleReader]
    /\ UNCHANGED <<inputs, dec, readerMutex, status, received, workers, subs, writers, delivered>>

\* reader line 126: workerDone is received and the loop calls for the next batch.
ReaderWake(r) ==
    /\ Running
    /\ readers[r].pc = "wait"
    /\ workers[r].pc = "signalled"
    /\ readers' = [readers EXCEPT ![r] = IdleReader]
    /\ workers' = [workers EXCEPT ![r] = IdleWorker]
    /\ subs' = [subs EXCEPT ![r] = <<>>]
    /\ UNCHANGED <<inputs, dec, readerMutex, status, received, writers, delivered>>

\* gridSearchParallel returns once it has received from every reader; main
\* returns with it and the process ends.
MainReturn ==
    /\ Running
    /\ received = NumReaders(numThreads)
    /\ status' = "returned"
    /\ UNCHANGED <<inputs, dec, readerMutex, received, readers, workers, subs, writers, delivered>>

\* ------------------------------------------------------------ worker side
\* worker, lines 137-162: the next task is received, the shared best result is
\* reset and one sub-worker is started per slice of the permutations. Before
\* its first task the worker runs lines 132-135, where MinMax can panic.
WorkerTake(r) ==
    /\ Running
    /\ workers[r].pc = "take"
    /\ workers[r].taskCounter < workers[r].numTasks
    /\ IF workers[r].taskCounter = 0 /\ MinMaxPanics
       THEN /\ status' = "panic"
            /\ UNCHANGED <<workers, subs>>
       ELSE
       LET task == Head(workers[r].chan)
           hyperParams == task.h
       IN  /\ status' = status
           /\ workers' = [workers EXCEPT ![r] =
                 [@ EXCEPT !.pc = "barrier",
                           !.chan = Tail(@),
                           !.src = task.src,
                           !.hyperParams = hyperParams,
                           !.globalOptimalHyperParams =
                               Hyperparameters(hyperParams.Outpath, NilSlice, NilSlice,
                                               NilSlice, NilSlice),
                           !.globalOptimalMSE = MaxFloat64,
                           !.globalOptimalModelParams = ZeroParameters,
                           !.globalParamLock = 0]]
           /\ subs' = [subs EXCEPT ![r] =
                 LET work == SubWork(hyperParams, numThreads) IN
                 [k \in 1..Len(work) |-> NewSub(hyperParams.Outpath, work[k])]]
    /\ UNCHANGED <<inputs, dec, readerMutex, received, readers, writers, delivered>>

\* Mutant of WorkerBarrier: the writer is started without group.Wait().
WorkerBarrierNoWait(r) ==
    /\ Running
    /\ workers[r].pc = "barrier"
    /\ writers' = Append(writers,
          [pc |-> "create", reader |-> r, src |-> workers[r].src,
           globalOptimalHyperParams |-> workers[r].globalOptimalHyperParams,
           globalOptimalModelParams |-> workers[r].globalOptimalModelParams,
           mse |-> workers[r].globalOptimalMSE,
           row |-> <<>>, writerDone |-> 0])
    /\ workers' = [workers EXCEPT ![r].pc = "waitWriter", ![r].writer = Len(writers) + 1]
    /\ UNCHANGED <<inputs, dec, readerMutex, status, received, readers, subs, delivered>>

\* worker, lines 163-169: group.Wait() returns when every sub-worker has called
\* group.Done(); the writer goroutine is started with copies of the shared result.
WorkerBarrier(r) ==
    /\ Running
    /\ workers[r].pc = "barrier"
    /\ \A k \in DOMAIN subs[r] : subs[r][k].pc = "end"
    /\ writers' = Append(writers,
          [pc |-> "create", reader |-> r, src |-> workers[r].src,
           globalOptimalHyperParams |-> workers[r].globalOptimalHyperParams,
           globalOptimalModelParams |-> workers[r].globalOptimalModelParams,
           mse |-> workers[r].globalOptimalMSE,
           row |-> <<>>, writerDone |-> 0])
    /\ workers' = [workers EXCEPT ![r].pc = "waitWriter", ![r].writer = Len(writers) + 1]
    /\ UNCHANGED <<inputs, dec, readerMutex, status, received, readers, subs, delivered>>

\* worker, line 170: writerDone is received and the loop goes to the next task.
WorkerWriterDone(r) ==
    /\ Running
    /\ workers[r].pc = "waitWriter"
    /\ writers[workers[r].writer].writerDone = 1
    /\ writers' = [writers EXCEPT ![workers[r].writer].writerDone = 0]
    /\ workers' = [workers EXCEPT ![r].pc = "take", ![r].taskCounter = @ + 1]
    /\ UNCHANGED <<inputs, dec, readerMutex, status, received, readers, subs, delivered>>

\* worker, line 174: after the last task, workerDone <- true (buffered).
WorkerFinish(r) ==
    /\ Running
    /\ workers[r].pc = "take"
    /\ workers[r].taskCounter >= workers[r].numTasks
    /\ workers' = [workers EXCEPT ![r].pc = "signalled"]
    /\ UNCHANGED <<inputs, dec, readerMutex, status, received, readers, subs, writers, delivered>>

\* -------------------------------------------------------- sub-worker side
\* Line 269: the comparison with the shared error, read without the lock.
Improves(localOptimalMSE, globalOptimalMSE) == Less(localOptimalMSE, globalOptimalMSE)

\* runParallelGradientDescent, lines 253-269: the local best of the work array,
\* then the comparison of line 269, which decides whether the lock is taken.
SubRun(r, k) ==
    /\ Running
    /\ subs[r][k].pc = "run"
    /\ LET best == LocalBest(subs[r][k].workArray, subs[r][k]) IN
       subs' = [subs EXCEPT ![r][k] =
          [best EXCEPT !.pc =
              IF Improves(best.localOptimalMSE, workers[r].globalOptimalMSE)
              THEN "lock" ELSE "done"]]
    /\ UNCHANGED <<inputs, dec, readerMutex, status, received, readers, workers, writers, delivered>>

\* Line 270: globalParamLock.Lock().
SubLock(r, k) ==
    /\ Running
    /\ subs[r][k].pc = "lock"
    /\ workers[r].globalParamLock = 0
    /\ workers' = [workers EXCEPT ![r].globalParamLock = k]
    /\ subs' = [subs EXCEPT ![r][k].pc = "write"]
    /\ UNCHANGED <<inputs, dec, readerMutex, status, received, readers, writers, delivered>>

\* Mutant of SubWrite: the fitted parameters are not copied (no line 273).
SubWriteNoParams(r, k) ==
    /\ Running
    /\ subs[r][k].pc = "write"
    /\ workers' = [workers EXCEPT
          ![r].globalOptimalMSE = subs[r][k].localOptimalMSE,
          ![r].globalOptimalHyperParams = subs[r][k].localOptimalHyperParams,
          ![r].globalParamLock = 0]
    /\ subs' = [subs EXCEPT ![r][k].pc = "done"]
    /\ UNCHANGED <<inputs, dec, readerMutex, status, received, readers, writers, delivered>>

\* Lines 271-274: the shared triple is overwritten and the lock released.
SubWrite(r, k) ==
    /\ Running
    /\ subs[r][k].pc = "write"
    /\ workers' = [workers EXCEPT
          ![r].globalOptimalMSE = subs[r][k].localOptimalMSE,
          ![r].globalOptimalHyperParams = subs[r][k].localOptimalHyperParams,
          ![r].globalOptimalModelParams = subs[r][k].localOptimalModelParams,
          ![r].globalParamLock = 0]
    /\ subs' = [subs EXCEPT ![r][k].pc = "done"]
    /\ UNCHANGED <<inputs, dec, readerMutex, status, received, readers, writers, delivered>>

\* Line 276: group.Done().
SubDone(r, k) ==
    /\ Running
    /\ subs[r][k].pc = "done"
    /\ subs' = [subs EXCEPT ![r][k].pc = "end"]
    /\ UNCHANGED <<inputs, dec, readerMutex, status, received, readers, workers, writers, delivered>>

\* ------------------------------------------------------------ writer side
\* os.Create fails on the empty path.
CreateFails(outpath) == outpath = ""

\* fmt.Sprintf("%f", x), kept symbolic.
Sprintf(x) == <<"%f", x>>

\* A column of the row: the first element of the axis, or "NA" for a nil axis.
Column(axis) == IF ~axis.nil THEN Sprintf(axis.e[1]) ELSE <<"NA">>

\* The row of lines 189-213 (Beta and Mu of the parameters, symbolic).
Row(h, p) ==
    <<Column(h.Alpha), Column(h.NumEpochs), Column(h.Lambda), Column(h.MiniBatchSize),
      Sprintf(<<"Beta", p>>), Sprintf(<<"Mu", p>>)>>

\* writer, lines 179-219: os.Create, where an error is fatal (log.Fatal ends the
\* process), then header and row go to the csv writer's buffer.
WriterCreate(w) ==
    /\ Running
    /\ writers[w].pc = "create"
    /\ IF CreateFails(writers[w].globalOptimalHyperParams.Outpath)
       THEN /\ status' = "fatal"
            /\ UNCHANGED writers
       ELSE /\ writers' = [writers EXCEPT
                  ![w].pc = "signal",
                  ![w].row = Row(writers[w].globalOptimalHyperParams,
                                 writers[w].globalOptimalModelParams)]
            /\ UNCHANGED status
    /\ UNCHANGED <<inputs, dec, readerMutex, received, readers, workers, subs, delivered>>

\* writer, lines 222-224: writerDone <- true (buffered), before the deferred calls run.
WriterSignal(w) ==
    /\ Running
    /\ writers[w].pc = "signal"
    /\ writers' = [writers EXCEPT ![w].pc = "deferred", ![w].writerDone = 1]
    /\ UNCHANGED <<inputs, dec, readerMutex, status, received, readers, workers, subs, delivered>>

\* writer returns: the deferred writer.Flush() (line 185) puts the buffered rows
\* into the file and the deferred file.Close() (line 183) closes it.
WriterReturn(w) ==
    /\ Running
    /\ writers[w].pc = "deferred"
    /\ writers' = [writers EXCEPT ![w].pc = "end"]
    /\ UNCHANGED <<inputs, dec, readerMutex, status, received, readers, workers, subs, delivered>>

\* --------------------------------------------------------- configurations
OkTask(outpath, alpha, lambda) == JsonRecord("ok", outpath, alpha, <<"1">>, lambda, <<>>)

AlphaStrings == <<"1", "2", "3", "4", "5">>

\* One task with 1..MaxAlpha learning rates, with and without a lambda axis.
GridStreams ==
    {<<OkTask("a", SubSeq(AlphaStrings, 1, n), lambda)>> :
        n \in 1..MaxAlpha, lambda \in {<<>>, <<"1", "2">>}}

\* The records of the pipeline configurations: a task with one permutation, a
\* task with no learning rate on another output path, and two malformed records.
PipeRecords ==
    {OkTask("a", <<"1">>, <<>>), OkTask("b", <<>>, <<>>),
     JsonRecord("type", "a", <<>>, <<"1">>, <<>>, <<>>),
     JsonRecord("syntax", "", <<>>, <<>>, <<>>, <<>>)}

PipeStreams == UNION {[1..n -> PipeRecords] : n \in 0..MaxStream}

\* Every error table for one task on every thread budget.
GridConfigurations ==
    UNION {{[numThreads |-> t, blockSize |-> 1, stream |-> s, mseTable |-> m] :
               t \in 1..MaxGridThreads, m \in [Tokens(s) -> 1..MaxErr]} : s \in GridStreams}

\* The grid configurations, and every stream of the pipeline on one and on
\* MaxThreads threads with a dataset of equal errors.
Configurations ==
    GridConfigurations
    \cup
    {[numThreads |-> t, blockSize |-> b, stream |-> s, mseTable |-> [p \in Tokens(s) |-> 1]] :
        t \in {1, MaxThreads}, b \in 1..MaxBlock, s \in PipeStreams}

\* One task with equal errors on a thread budget below zero, for which main
\* calls gridSearchParallel as for every budget other than 0.
NegativeConfigurations ==
    {[numThreads |-> 0 - t, blockSize |-> 1, stream |-> s, mseTable |-> [p \in Tokens(s) |-> 1]] :
        t \in 1..MaxNegThreads, s \in GridStreams}

DataKinds == {"ok", "empty", "flat"}

\* The state when gridSearchParallel has started its readers, for the flags
\* and the stream of configuration c and a dataset of kind d.
Start(c, d) ==
    /\ numThreads = c.numThreads
    /\ blockSize = c.blockSize
    /\ stream = c.stream
    /\ mseTable = c.mseTable
    /\ data = d
    /\ dec = [pos |-> 0, err |-> "nil"]
    /\ readerMutex = 0
    /\ status = "running"
    /\ received = 0
    /\ readers = [r \in Readers |-> IdleReader]
    /\ workers = [r \in Readers |-> IdleWorker]
    /\ subs = [r \in Readers |-> <<>>]
    /\ writers = <<>>
    /\ delivered = <<>>

\* A positive thread budget and a dataset that can be normalised.
Init == \E c \in Configurations : Start(c, "ok")

\* Every thread budget other than 0 and every kind of dataset.
AnyInit == \E c \in GridConfigurations \cup NegativeConfigurations, d \in DataKinds : Start(c, d)

Next ==
    \/ \E r \in Readers : ReaderLock(r)
    \/ \E r \in Readers : ReaderDecode(r)
    \/ \E r \in Readers : ReaderUnlock(r)
    \/ \E r \in Readers : ReaderDispatch(r)
    \/ \E r \in Readers : ReaderReport(r)
    \/ \E r \in Readers : ReaderWake(r)
    \/ \E r \in Readers : WorkerTake(r)
    \/ \E r \in Readers : WorkerBarrier(r)
    \/ \E r \in Readers : WorkerWriterDone(r)
    \/ \E r \in Readers : WorkerFinish(r)
    \/ \E r \in Readers : \E k \in DOMAIN subs[r] : SubRun(r, k)
    \/ \E r \in Readers : \E k \in DOMAIN subs[r] : SubLock(r, k)
    \/ \E r \in Readers : \E k \in DOMAIN subs[r] : SubWrite(r, k)
    \/ \E r \in Readers : \E k \in DOMAIN subs[r] : SubDone(r, k)
    \/ \E w \in DOMAIN writers : WriterCreate(w)
    \/ \E w \in DOMAIN writers : WriterSignal(w)
    \/ \E w \in DOMAIN writers : WriterReturn(w)
    \/ MainReturn

Spec == Init /\ [][Next]_vars

AnyInputSpec == AnyInit /\ [][Next]_vars

\* Every record of the stream decodes without error and names an output path.
WellFormedStream ==
    \A k \in DOMAIN stream : stream[k].kind = "ok" /\ stream[k].outpath # ""

\* The configurations with a well-formed stream and a dataset of equal errors.
InitFair ==
    /\ Init
    /\ WellFormedStream
    /\ \A p \in DOMAIN mseTable : mseTable[p] = 1

\* The Go scheduler runs every goroutine that can take a step.
FairSpec == InitFair /\ [][Next]_vars /\ WF_vars(Next)

\* ------------------------------------------------------------- properties
\* The error line 262 computes for one permutation of a work array.
EvalError(hyperParams) ==
    CalcMSE(runGradientDescent(hyperParams.Alpha.e[1], hyperParams.NumEpochs.e[1]))

\* The permutations the sub-workers of reader r's current task were given, in order.
SlicesOf(r) == Flatten([k \in DOMAIN subs[r] |-> subs[r][k].workArray])

\* The worker of reader r has handed its current task's result to a writer.
Handed(r) == workers[r].pc = "waitWriter"

\* C1: the error of the best result handed to the writer is at most the error
\* of every permutation a sub-worker of that task evaluated.
C1_ReductionCorrect ==
    \A r \in Readers :
        Handed(r) =>
            \A k \in DOMAIN subs[r] : \A i \in DOMAIN subs[r][k].workArray :
                writers[workers[r].writer].mse <= EvalError(subs[r][k].workArray[i])

\* C2: the slices handed to the sub-workers of a task hold every permutation
\* of the task exactly once.
C2_ChunkingComplete ==
    \A r \in Readers :
        workers[r].pc \in {"barrier", "waitWriter"} =>
            SlicesOf(r) = createArrayParamPermutations(workers[r].hyperParams)

\* C3: every overwrite of the shared best result by a sub-worker strictly
\* decreases the shared error.
C3_OverwriteDecreases ==
    [][\A r \in Readers : \A k \in DOMAIN subs[r] :
          (/\ subs[r][k].pc = "write"
           /\ k \in DOMAIN subs'[r]
           /\ subs'[r][k].pc = "done")
          => workers'[r].globalOptimalMSE < workers[r].globalOptimalMSE]_vars

\* The writers started for record i of the stream.
WriterCalls(i) == Cardinality({w \in DOMAIN writers : writers[w].src = i})

\* The readers that were handed a batch with a task in it.
Served == {delivered[n].reader : n \in {m \in DOMAIN delivered : delivered[m].src # <<>>}}

\* C4: when gridSearchParallel returns on a well-formed stream, the writer has
\* been started exactly once for every record, and for nothing else.
C4_OneResultPerGrid ==
    (status = "returned" /\ WellFormedStream) =>
        /\ \A i \in DOMAIN stream : WriterCalls(i) = 1
        /\ Len(writers) = Len(stream)

\* C4's case: two readers each served part of a stream that has a task without
\* permutations, and gridSearchParallel has returned.
C4_Witness ==
    /\ status = "returned"
    /\ WellFormedStream
    /\ Cardinality(Served) >= 2
    /\ \E k \in DOMAIN stream : stream[k].alpha = <<>>
    /\ \A i \in DOMAIN stream : WriterCalls(i) = 1

\* C5: when a worker goes on to its next task or signals workerDone, the writer
\* of the task before has flushed and closed its file; and no writer is pending
\* when gridSearchParallel returns. Stated on well-formed streams, where every
\* writer is one the claim is about.
C5_WriterFinishedFirst ==
    WellFormedStream =>
        /\ \A r \in Readers :
              (workers[r].pc \in {"take", "signalled"} /\ workers[r].writer # 0)
                  => writers[workers[r].writer].pc = "end"
        /\ status = "returned" => \A w \in DOMAIN writers : writers[w].pc = "end"

\* Writer w has its output file open: created and not yet closed.
Writing(w) == writers[w].pc \in {"signal", "deferred"}

\* C6: no two writers have the same output path open at the same time. Stated
\* on well-formed streams, two records of which may name the same path.
C6_NoConcurrentWriters ==
    WellFormedStream =>
        \A w1, w2 \in DOMAIN writers :
            (w1 # w2 /\ Writing(w1) /\ Writing(w2))
                => writers[w1].globalOptimalHyperParams.Outpath
                       # writers[w2].globalOptimalHyperParams.Outpath

\* The stream indices of the tasks in the batches returned so far.
DeliveredSrc == UNION {Range(delivered[n].src) : n \in DOMAIN delivered}

\* C7: no task is put into a batch for a malformed record, and the well-formed
\* records are all delivered by the time gridSearchParallel returns.
C7_MalformedSkipped ==
    /\ \A i \in DeliveredSrc : i # 0 /\ stream[i].kind = "ok"
    /\ status = "returned" =>
          \A i \in DOMAIN stream : stream[i].kind = "ok" => i \in DeliveredSrc

\* gridSearchParallel has returned, with every reader ended on an empty batch
\* and no worker left.
AllDone ==
    /\ status = "returned"
    /\ \A r \in Readers :
          /\ readers[r].pc = "exit"
          /\ workers[r].pc = "idle"
          /\ \E n \in DOMAIN delivered : delivered[n].reader = r /\ delivered[n].src = <<>>

\* The number of tasks in the batches returned before batch n.
RECURSIVE BatchBase(_)
BatchBase(n) == IF n <= 1 THEN 0 ELSE BatchBase(n - 1) + Len(delivered[n - 1].src)

\* A call made once the stream is exhausted returns an empty batch, and after
\* an empty batch every later batch is empty.
EmptyIsPermanent ==
    /\ \A n \in DOMAIN delivered :
          BatchBase(n) >= Len(stream) => delivered[n].src = <<>>
    /\ \A n, m \in DOMAIN delivered :
          (n < m /\ delivered[n].src = <<>>) => delivered[m].src = <<>>

C9_BatchesConsecutive ==
    \A n \in DOMAIN delivered :
        /\ Len(delivered[n].src) <= blockSize
        /\ delivered[n].src = [k \in 1..Len(delivered[n].src) |-> BatchBase(n) + k]

\* A reader is between lock.Lock() and lock.Unlock().
InDecodingSection(r) == readers[r].pc \in {"decode", "unlock"}

\* C10: at most one reader is in the decoding section, and it holds the lock.
C10_DecoderMutex ==
    /\ Cardinality({r \in Readers : InDecodingSection(r)}) <= 1
    /\ \A r \in Readers : InDecodingSection(r) => readerMutex = r

\* C10's case: one reader has decoded a record and another waits for the lock.
C10_Witness ==
    \E r1, r2 \in Readers :
        /\ r1 # r2
        /\ readers[r1].pc = "decode"
        /\ readers[r1].i >= 1
        /\ readers[r2].pc = "call"

\* The winning error of a worker with a thread budget of 1 for task hyperParams:
\* its one sub-worker is given the whole work array, or none is started.
OneThreadError(hyperParams) ==
    LET work == SubWork(hyperParams, 1) IN
    IF work = <<>> THEN MaxFloat64
    ELSE LocalBest(work[1], NewSub(hyperParams.Outpath, work[1])).localOptimalMSE

\* C11: on every thread budget and in every interleaving, the error handed to
\* the writer for a task is the error a worker with a thread budget of 1 hands
\* over for the same task.
C11_PartitionIndependent ==
    WellFormedStream =>
        \A r \in Readers :
            Handed(r) =>
                writers[workers[r].writer].mse = OneThreadError(workers[r].hyperParams)

\* The batches returned to reader r so far, in order.
BatchesOf(r) == SelectSeq(delivered, LAMBDA b : b.reader = r)

\* The worker goroutine of reader r is running.
WorkerRunning(r) == workers[r].pc # "idle"

\* C12: a reader has a worker running exactly while it waits for workerDone,
\* that worker was started on the last batch the reader was returned, which is
\* not empty, and accounts for every task of it; so a reader that calls for a
\* batch has no worker, and there are at most as many workers as readers.
C12_OneBatchInFlight ==
    /\ \A r \in Readers :
          /\ WorkerRunning(r) <=> readers[r].pc = "wait"
          /\ WorkerRunning(r) =>
                /\ BatchesOf(r) # <<>>
                /\ workers[r].numTasks = Len(BatchesOf(r)[Len(BatchesOf(r))].src)
                /\ workers[r].numTasks >= 1
                /\ workers[r].taskCounter + Len(workers[r].chan)
                       + (IF workers[r].pc \in {"barrier", "waitWriter"} THEN 1 ELSE 0)
                     = workers[r].numTasks
    /\ Cardinality({r \in Readers : WorkerRunning(r)}) <= NumReaders(numThreads)

\* C12's case: one reader has been through its worker's batch and calls for
\* the next one while the worker of another reader is at its sub-workers.
C12_Witness ==
    \E r1, r2 \in Readers :
        /\ r1 # r2
        /\ r1 \in Served
        /\ readers[r1].pc = "call"
        /\ workers[r2].pc = "barrier"
        /\ subs[r2] # <<>>

\* Sub-worker k of reader r has evaluated its work array.
Evaluated(r, k) == subs[r][k].pc # "run" /\ subs[r][k].workArray # <<>>

\* C13: with a dataset that is empty or has minX = maxX, no batch is read, no
\* permutation is evaluated and no output row is written.
C13_DegenerateRejected ==
    data \in {"empty", "flat"} =>
        /\ delivered = <<>>
        /\ \A r \in Readers : \A k \in DOMAIN subs[r] : ~Evaluated(r, k)
        /\ \A w \in DOMAIN writers : writers[w].row = <<>>

\* C14: for every thread budget other than 0, with which main calls
\* gridSearchParallel, at least one reader is started.
C14_AtLeastOneReader ==
    numThreads # 0 => (NumReaders(numThreads) >= 1 /\ DOMAIN readers # {})

\* The task writer w was started for, as the reader built it from the stream.
GridOf(w) == ToHyperparameters(stream[writers[w].src])

\* A column of the row as C15 has it for an axis of the task.
AxisColumnOk(axis, column) ==
    IF Len(axis.e) = 0
    THEN column = <<"NA">>
    ELSE \E v \in Range(axis.e) : column = Sprintf(v)

\* C15: the row of a task for which a permutation won has six columns, and each
\* of the four axis columns holds "NA" when the task has no value for the axis
\* and a value of the axis when it has.
C15_RowColumns ==
    \A w \in DOMAIN writers :
        (writers[w].src # 0 /\ writers[w].row # <<>> /\ writers[w].mse # MaxFloat64) =>
            /\ Len(writers[w].row) = 6
            /\ AxisColumnOk(GridOf(w).Alpha, writers[w].row[1])
            /\ AxisColumnOk(GridOf(w).NumEpochs, writers[w].row[2])
            /\ AxisColumnOk(GridOf(w).Lambda, writers[w].row[3])
            /\ AxisColumnOk(GridOf(w).MiniBatchSize, writers[w].row[4])

\* s is the start of sequence t.
IsPrefix(s, t) == Len(s) <= Len(t) /\ s = SubSeq(t, 1, Len(s))

\* C16: for a task with at least one permutation, the chunk size of the worker
\* is ceil(L / numThreads) for L the length of the permutation sequence, every
\* sub-worker is given a chunk of that size, and the chunks are consecutive
\* pieces of the sequence, in order from its start.
C16_ChunkSize ==
    \A r \in Readers :
        LET workArray == createArrayParamPermutations(workers[r].hyperParams) IN
        (workers[r].pc \in {"barrier", "waitWriter"} /\ Len(workArray) >= 1) =>
            /\ WorkSizePerThread(workers[r].hyperParams, numThreads)
                   = Ceil(Len(workArray), numThreads)
            /\ \A k \in DOMAIN subs[r] :
                  Len(subs[r][k].workArray) = Ceil(Len(workArray), numThreads)
            /\ IsPrefix(SlicesOf(r), workArray)

\* C17: once the worker has read the shared best result and started the
\* writer, every sub-worker of the task has called group.Done(), none holds the
\* lock, and the shared result is still what the writer was given.
C17_BarrierBeforeWrite ==
    \A r \in Readers :
        Handed(r) =>
            /\ \A k \in DOMAIN subs[r] : subs[r][k].pc = "end"
            /\ workers[r].globalParamLock = 0
            /\ writers[workers[r].writer].mse = workers[r].globalOptimalMSE
            /\ writers[workers[r].writer].globalOptimalHyperParams
                   = workers[r].globalOptimalHyperParams
            /\ writers[workers[r].writer].globalOptimalModelParams
                   = workers[r].globalOptimalModelParams

\* C17's case: a task was sliced over at least two sub-workers, more than one
\* of them improved on its slice, and the result went to the writer.
C17_Witness ==
    \E r \in Readers :
        /\ Handed(r)
        /\ Len(subs[r]) >= 2
        /\ Cardinality({k \in DOMAIN subs[r] : subs[r][k].localOptimalMSE # MaxFloat64}) >= 2
        /\ writers[workers[r].writer].mse # MaxFloat64

\* The stream indices of the tasks reader r was returned, batch after batch.
TasksOf(r) == Flatten([n \in DOMAIN BatchesOf(r) |-> BatchesOf(r)[n].src])

\* The stream indices of the tasks reader r's workers started a writer for, in
\* the order of the starts.
WrittenOf(r) ==
    LET ws == SelectSeq(writers, LAMBDA w : w.reader = r)
    IN  [n \in DOMAIN ws |-> ws[n].src]

\* The tasks of a reader go to the writer in the order the reader got them.
StartedInOrder == \A r \in Readers : IsPrefix(WrittenOf(r), TasksOf(r))

\* C18: on a well-formed stream the tasks of a reader are handed to the writer
\* in the order the reader got them, and while the sub-workers of one task run,
\* the rows of the reader's earlier tasks are in their files.
C18_PerReaderOrder ==
    WellFormedStream =>
        /\ StartedInOrder
        /\ \A r \in Readers :
              workers[r].pc = "barrier" =>
                  \A w \in DOMAIN writers :
                      writers[w].reader = r => writers[w].pc = "end"

\* The task of writer w as its worker received it; a task that was sent for no
\* record of the stream is built from the zero jsonInput.
TaskOf(w) == IF writers[w].src = 0 THEN ToHyperparameters(ZeroJson) ELSE GridOf(w)

\* The triple of writer w is the point, the fitted parameters and the error of
\* permutation p.
TripleOf(w, p) ==
    /\ writers[w].globalOptimalHyperParams =
           Hyperparameters(TaskOf(w).Outpath, p.Alpha, p.NumEpochs, NilSlice, NilSlice)
    /\ writers[w].globalOptimalModelParams =
           runGradientDescent(p.Alpha.e[1], p.NumEpochs.e[1])
    /\ writers[w].mse = EvalError(p)

\* The triple of writer w is the one the worker sets at lines 139-142.
TripleInitial(w) ==
    /\ writers[w].globalOptimalHyperParams =
           Hyperparameters(TaskOf(w).Outpath, NilSlice, NilSlice, NilSlice, NilSlice)
    /\ writers[w].globalOptimalModelParams = ZeroParameters
    /\ writers[w].mse = MaxFloat64

\* C19: the point, the error and the fitted parameters a writer is given are
\* those of one and the same permutation of its task, or all three are initial.
C19_TripleConsistent ==
    \A w \in DOMAIN writers :
        \/ TripleInitial(w)
        \/ \E p \in Range(createArrayParamPermutations(TaskOf(w))) : TripleOf(w, p)

\* C19's case: two sub-workers overwrote the shared result one after the
\* other, and the writer was given the result of the one with the larger error.
C19_Witness ==
    \E r \in Readers :
        /\ Handed(r)
        /\ Len(subs[r]) >= 2
        /\ writers[workers[r].writer].mse # MaxFloat64
        /\ \E k \in DOMAIN subs[r] :
              subs[r][k].localOptimalMSE < writers[workers[r].writer].mse

\* The pairs the nested loops of gridSearchSequential go through, in order.
LoopOrder(hyperParams) ==
    Flatten([a \in 1..Len(hyperParams.Alpha.e) |->
                [n \in 1..Len(hyperParams.NumEpochs.e) |->
                    <<hyperParams.Alpha.e[a], hyperParams.NumEpochs.e[n]>>]])

\* The nested loops of gridSearchSequential (lines 71-84) from the state best.
RECURSIVE SequentialLoop(_, _, _)
SequentialLoop(outpath, pairs, best) ==
    IF pairs = <<>> THEN best
    ELSE LET alpha == Head(pairs)[1]
             numEpochs == Head(pairs)[2]
             parameters == runGradientDescent(alpha, numEpochs)
             mse == CalcMSE(parameters)
         IN  SequentialLoop(outpath, Tail(pairs),
                            IF Less(mse, best.optimalMSE)
                            THEN [optimalMSE |-> mse,
                                  optimalHyperParams |->
                                      Hyperparameters(outpath, Slice(<<alpha>>),
                                                      Slice(<<numEpochs>>), NilSlice, NilSlice)]
                            ELSE best)

\* What gridSearchSequential hands the writer for task hyperParams (lines
\* 67-69 and 71-84), as far as the point and its error go.
gridSearchSequential(hyperParams) ==
    SequentialLoop(hyperParams.Outpath, LoopOrder(hyperParams),
                   [optimalMSE |-> MaxFloat64,
                    optimalHyperParams |->
                        Hyperparameters(hyperParams.Outpath, NilSlice, NilSlice,
                                        NilSlice, NilSlice)])

\* C20: on a well-formed stream, the point and the error the parallel worker
\* hands the writer for a task are the ones gridSearchSequential finds for it.
C20_SequentialAgrees ==
    WellFormedStream =>
        \A r \in Readers :
            Handed(r) =>
                /\ writers[workers[r].writer].mse
                       = gridSearchSequential(workers[r].hyperParams).optimalMSE
                /\ writers[workers[r].writer].globalOptimalHyperParams
                       = gridSearchSequential(workers[r].hyperParams).optimalHyperParams
====
